---- MODULE Spec2Model ----
(***************************************************************************)
(* Model of the Shift-key popup window controller (src/shift_window.py).   *)
(*                                                                         *)
(* Three kinds of thread act on one ShiftWindow object:                    *)
(*   - the pynput listener thread (on_shift_press / on_shift_release),     *)
(*   - one threading.Timer thread per armed auto-hide timer,               *)
(*   - the main thread running the update loop of start_monitoring.        *)
(* The native Tk window can also be destroyed from outside the program.    *)
(***************************************************************************)
EXTENDS Naturals, Integers, Sequences, FiniteSets

\* ---------------------------------------------------------------- bounds
\* Bound on the load the keyboard may put on the event queue: a Shift press
\* is accepted only while queued events + outstanding timers stay below it.
MaxQueue == 2
\* Number of distinct native window identities.
MaxWindows == 2

\* Python's None, for the window handle and the timer handle.
None == 0

NumTimers == MaxQueue + 1
TimerIds == 1..NumTimers
WindowIds == 1..MaxWindows

VARIABLES
    window,          \* self.window: a native window id, or None
    shift_pressed,   \* self.shift_pressed
    window_timer,    \* self.window_timer: a timer id, or None
    running,         \* self.running
    event_queue,     \* self.event_queue, oldest first; each entry is
                     \*   [ev |-> the string put, src |-> the timer that put it, or None]
    window_visible,  \* self.window_visible
    window_created,  \* self.window_created
    timers,          \* state of each threading.Timer object
    live,            \* native windows that exist (created and not destroyed)
    pc,              \* position of the main thread in the update loop
    latest,          \* history: the timer armed by the most recent start_timer
    rearmed,         \* history: that start_timer was the re-arm of a visible window
    last,            \* history: the step taken last
    pre,             \* history: the program state before the step taken last
    browser_status,  \* BrowserStatus.siteFrontmostActive
    probe            \* a BrowserDetector run: the world, the check called, its result

vars == <<window, shift_pressed, window_timer, running, event_queue,
          window_visible, window_created, timers, live, pc, latest, rearmed,
          last, pre, browser_status, probe>>

\* The fields of ShiftWindow and what is recorded of them.
window_vars == <<window, shift_pressed, window_timer, running, event_queue,
                 window_visible, window_created, timers, live, pc, latest,
                 rearmed>>

\* ------------------------------------------------------------- key names
\* Strings are sequences of characters so that `'shift' in key_name` is the
\* substring test the code performs.
shift == <<"s", "h", "i", "f", "t">>

\* pynput keys: a Key has a .name, a KeyCode has none and is rendered by str().
KeyShift  == [has_name |-> TRUE,  name |-> <<"s", "h", "i", "f", "t">>,
              str |-> <<"K", ".", "s", "h", "i", "f", "t">>]
KeyShiftR == [has_name |-> TRUE,  name |-> <<"s", "h", "i", "f", "t", "_", "r">>,
              str |-> <<"K", ".", "s", "h", "i", "f", "t", "_", "r">>]
KeyCharA  == [has_name |-> FALSE, name |-> <<>>,
              str |-> <<"'", "a", "'">>]
Keys == {KeyShift, KeyShiftR, KeyCharA}

\* key.name if hasattr(key, 'name') else str(key)
key_name(key) == IF key.has_name THEN key.name ELSE key.str

\* Python's `sub in s` on strings.
Contains(sub, s) ==
    \E i \in 0..Len(s) :
        /\ i + Len(sub) <= Len(s)
        /\ SubSeq(s, i + 1, i + Len(sub)) = sub

\* ------------------------------------------------------- browser detector
\* Application names and window titles are sequences of characters, so that
\* str.lower() and `in` are computed as Python computes them.
UpperAlpha == <<"A", "B", "C", "D", "E", "F", "G", "H", "I", "J", "K", "L", "M",
                "N", "O", "P", "Q", "R", "S", "T", "U", "V", "W", "X", "Y", "Z">>
LowerAlpha == <<"a", "b", "c", "d", "e", "f", "g", "h", "i", "j", "k", "l", "m",
                "n", "o", "p", "q", "r", "s", "t", "u", "v", "w", "x", "y", "z">>

lower_char(c) ==
    IF \E i \in DOMAIN UpperAlpha : UpperAlpha[i] = c
    THEN LowerAlpha[CHOOSE i \in DOMAIN UpperAlpha : UpperAlpha[i] = c]
    ELSE c

\* str.lower()
lower(s) == [i \in 1..Len(s) |-> lower_char(s[i])]

Safari        == <<"S", "a", "f", "a", "r", "i">>
GoogleChrome  == <<"G", "o", "o", "g", "l", "e", " ", "C", "h", "r", "o", "m", "e">>
Arc           == <<"A", "r", "c">>
Firefox       == <<"F", "i", "r", "e", "f", "o", "x">>
MicrosoftEdge == <<"M", "i", "c", "r", "o", "s", "o", "f", "t", " ", "E", "d", "g", "e">>
BraveBrowser  == <<"B", "r", "a", "v", "e", " ", "B", "r", "o", "w", "s", "e", "r">>
Opera         == <<"O", "p", "e", "r", "a">>
Vivaldi       == <<"V", "i", "v", "a", "l", "d", "i">>

\* Applications that are not browsers.
Finder         == <<"F", "i", "n", "d", "e", "r">>
ArchiveUtility == <<"A", "r", "c", "h", "i", "v", "e", " ",
                    "U", "t", "i", "l", "i", "t", "y">>

\* The empty string; also stands for Python's None as a browser name.
NoName == <<>>

\* The keys of the `browsers` and `browser_scripts` dicts, in insertion order.
script_browsers == <<Safari, GoogleChrome, Arc>>

\* The list browser_apps of is_browser_frontmost_with_x_com.
browser_apps == <<Safari, GoogleChrome, Arc, Firefox, MicrosoftEdge,
                  BraveBrowser, Opera, Vivaldi>>

\* Window titles of the frontmost application.
TitleHomeX  == <<"H", "o", "m", "e", " ", "/", " ", "X">>
TitleXCom   == <<"X", ".", "c", "o", "m">>
TitleInbox  == <<"I", "n", "b", "o", "x">>
Titles == {TitleHomeX, TitleXCom, TitleInbox}

\* The osascript invocations the detector makes: the frontmost-application
\* query, the window-title query, and one tab query per scripted browser,
\* which is named by the browser.
CallFront == <<"frontmost application">>
CallTitle == <<"window title">>
Calls == {CallFront, CallTitle} \cup {script_browsers[i] : i \in DOMAIN script_browsers}

\* How a subprocess.run ends: it returns with exit status 0, it returns with
\* another exit status (check=True is not passed, nothing is raised), it
\* raises TimeoutExpired, or it raises OSError because the command could not
\* be started.
Outcomes == {"ok", "nonzero", "timeout", "oserror"}
NoFault == [call |-> <<"none">>, kind |-> "ok"]
Faults == {NoFault} \cup [call : Calls, kind : Outcomes \ {"ok"}]

\* What the detector runs against: platform.system(), the application that
\* is frontmost ("" when there is none to name), the scripted browsers that
\* have the site in a tab, the title of the frontmost window, and the
\* osascript invocation that fails, if any.
Worlds ==
    [system : {"Darwin", "Linux"},
     front  : {Safari, GoogleChrome, Arc, Firefox, Finder, ArchiveUtility, NoName},
     open   : SUBSET {script_browsers[i] : i \in DOMAIN script_browsers},
     title  : Titles,
     fault  : Faults]

\* There is no osascript outside macOS.
outcome(w, call) ==
    IF w.system # "Darwin" THEN "oserror"
    ELSE IF w.fault.call = call THEN w.fault.kind
    ELSE "ok"

Return(found, name) == [raised |-> FALSE, found |-> found, browser |-> name]
Raise == [raised |-> TRUE, found |-> FALSE, browser |-> NoName]

\* The loop of is_x_com_open_mac from the i-th browser on.
RECURSIVE open_from(_, _)
open_from(w, i) ==
    IF i > Len(script_browsers) THEN Return(FALSE, NoName)
    ELSE LET b == script_browsers[i]
             o == outcome(w, b)
         IN CASE o = "oserror" -> Raise
              [] o = "timeout" -> open_from(w, i + 1)
              [] o = "nonzero" -> open_from(w, i + 1)
              [] o = "ok" -> IF b \in w.open THEN Return(TRUE, b)
                             ELSE open_from(w, i + 1)

\* BrowserDetector.is_x_com_open_mac
is_x_com_open_mac(w) == open_from(w, 1)

\* BrowserDetector.get_active_window_title_mac
get_active_window_title_mac(w) ==
    IF outcome(w, CallTitle) = "ok" THEN w.title ELSE NoName

\* The title test shared by is_browser_active_with_x and the fallback branch.
title_has_x(title) ==
    \/ Contains(<<"x", ".", "c", "o", "m">>, lower(title))
    \/ Contains(<<" ", "/", " ", "X">>, title)
    \/ Contains(<<"(", "@">>, title)

\* BrowserDetector.get_frontmost_application; NoName is its None.
get_frontmost_application(w) ==
    IF w.system # "Darwin" THEN NoName
    ELSE IF outcome(w, CallFront) = "ok" THEN w.front
    ELSE NoName

\* `for x in names: if <test>: ...; break`: the first entry among those, at
\* the indexes S, that pass the test; NoName when the loop ends without one.
first_match(names, S) ==
    IF S = {} THEN NoName ELSE names[CHOOSE i \in S : \A j \in S : i <= j]

\* BrowserDetector.is_browser_frontmost_with_x_com
is_browser_frontmost_with_x_com(w) ==
    IF w.system # "Darwin" THEN Return(FALSE, NoName)
    ELSE LET frontmost_app == get_frontmost_application(w)
             frontmost_browser ==
                 first_match(browser_apps,
                     {i \in DOMAIN browser_apps :
                         Contains(lower(browser_apps[i]), lower(frontmost_app))})
             script ==
                 first_match(script_browsers,
                     {i \in DOMAIN script_browsers :
                         Contains(lower(script_browsers[i]), lower(frontmost_browser))})
             o == outcome(w, script)
         IN IF frontmost_app = NoName THEN Return(FALSE, NoName)
            ELSE IF frontmost_browser = NoName THEN Return(FALSE, NoName)
            ELSE IF script = NoName
            THEN Return(title_has_x(get_active_window_title_mac(w)), frontmost_browser)
            ELSE CASE o = "oserror" -> Raise
                   [] o = "timeout" -> Return(FALSE, frontmost_browser)
                   [] o = "nonzero" -> Return(FALSE, frontmost_browser)
                   [] o = "ok" -> Return(w.front = script /\ script \in w.open,
                                         frontmost_browser)

\* ----------------------------------------------------------------- styling
\* window.configure(bg=...) in create_window_main_thread: the one background
\* every created window gets.
configure_bg == "#2c3e50"

\* Styling selected from a BrowserStatus snapshot: the active styling when
\* the site is frontmost-active, the plain one otherwise.
select_style(active) == IF active THEN "active" ELSE "#2c3e50"

\* A macOS desktop with the Finder in front and no osascript failing.
QuietWorld == [system |-> "Darwin", front |-> Finder, open |-> {},
               title |-> TitleInbox, fault |-> NoFault]

\* The detector before any check was called on world w.
NotCalled(w) == [world |-> w, call |-> "none", result |-> Return(FALSE, NoName)]

\* ------------------------------------------------------------- snapshots
Snap == [window |-> window, shift_pressed |-> shift_pressed,
         window_timer |-> window_timer, running |-> running,
         event_queue |-> event_queue, window_visible |-> window_visible,
         window_created |-> window_created, timers |-> timers,
         live |-> live, pc |-> pc, latest |-> latest, rearmed |-> rearmed]

Step(op, ev, key) == [op |-> op, ev |-> ev, key |-> key]

Record(op, ev, key) ==
    /\ last' = Step(op, ev, key)
    /\ pre' = Snap

\* --------------------------------------------------------------- timers
\* A threading.Timer is "waiting" in finished.wait(interval), then "firing"
\* once the wait timed out and `not self.finished.is_set()` was read; it is
\* "off" before it is started, after its function ran and after cancel().
Outstanding(ts) == {t \in TimerIds : ts[t] \in {"waiting", "firing"}}

QueuedSrc == {event_queue[i].src : i \in 1..Len(event_queue)}

\* Timer objects nothing refers to any more can be allocated again.
FreeTimers ==
    {t \in TimerIds : /\ timers[t] = "off"
                      /\ t # window_timer
                      /\ t # latest
                      /\ t \notin QueuedSrc}

Min(S) == CHOOSE x \in S : \A y \in S : x <= y

\* Timer.cancel(): only a timer still waiting is stopped.
Cancel(ts, t) == IF ts[t] = "waiting" THEN [ts EXCEPT ![t] = "off"] ELSE ts

InitController ==
    /\ window = None
    /\ shift_pressed = FALSE
    /\ window_timer = None
    /\ running = TRUE
    /\ event_queue = <<>>
    /\ window_visible = FALSE
    /\ window_created = FALSE
    /\ timers = [t \in TimerIds |-> "off"]
    /\ live = {}
    /\ pc = "poll"
    /\ latest = None
    /\ rearmed = FALSE
    /\ last = Step("init", "", <<>>)
    /\ pre = Snap

\* No detector is constructed by main() or by ShiftWindow.
Init ==
    /\ InitController
    /\ browser_status = FALSE
    /\ probe = NotCalled(QuietWorld)


\* ------------------------------------------------- key monitor callbacks
\* The queue is unbounded; the keyboard is throttled instead: a press that
\* enqueues is only offered while the queued events and the outstanding
\* timers (each of which will put one event) leave room.
Room == Len(event_queue) + Cardinality(Outstanding(timers)) < MaxQueue

\* Mutant of on_shift_press: the `not self.shift_pressed` test is missing.
on_shift_press_NoDebounce(key) ==
    /\ IF Contains(shift, key_name(key))
       THEN /\ shift_pressed' = TRUE
            /\ event_queue' = Append(event_queue, [ev |-> "create_window", src |-> None])
       ELSE UNCHANGED <<shift_pressed, event_queue>>
    /\ UNCHANGED <<window, window_timer, running, window_visible, window_created,
                   timers, live, pc, latest, rearmed>>

\* ShiftWindow.on_shift_press
on_shift_press(key) ==
    /\ IF Contains(shift, key_name(key)) /\ ~shift_pressed
       THEN /\ shift_pressed' = TRUE
            /\ event_queue' = Append(event_queue, [ev |-> "create_window", src |-> None])
       ELSE UNCHANGED <<shift_pressed, event_queue>>
    /\ UNCHANGED <<window, window_timer, running, window_visible, window_created,
                   timers, live, pc, latest, rearmed>>

\* Mutant of on_shift_release: releasing Shift asks for the window to be hidden.
on_shift_release_Hides(key) ==
    /\ IF Contains(shift, key_name(key))
       THEN /\ shift_pressed' = FALSE
            /\ event_queue' = Append(event_queue, [ev |-> "hide_window", src |-> None])
       ELSE UNCHANGED <<shift_pressed, event_queue>>
    /\ UNCHANGED <<window, window_timer, running, window_visible,
                   window_created, timers, live, pc, latest, rearmed>>

\* ShiftWindow.on_shift_release
on_shift_release(key) ==
    /\ IF Contains(shift, key_name(key))
       THEN shift_pressed' = FALSE
       ELSE UNCHANGED shift_pressed
    /\ UNCHANGED <<window, window_timer, running, event_queue, window_visible,
                   window_created, timers, live, pc, latest, rearmed>>

KeyPress ==
    \E key \in Keys :
        /\ (Contains(shift, key_name(key)) /\ ~shift_pressed) => Room
        /\ on_shift_press(key)
        /\ UNCHANGED <<browser_status, probe>>
        /\ Record("press", "", key_name(key))

KeyRelease ==
    \E key \in Keys :
        /\ on_shift_release(key)
        /\ UNCHANGED <<browser_status, probe>>
        /\ Record("release", "", key_name(key))

\* ---------------------------------------------------------- timer threads
\* Timer.run, first half: the 2.0 s wait timed out and the timer was not
\* cancelled when `self.finished.is_set()` was read.
TimerExpire(t) ==
    /\ timers[t] = "waiting"
    /\ timers' = [timers EXCEPT ![t] = "firing"]
    /\ UNCHANGED <<window, shift_pressed, window_timer, running, event_queue,
                   window_visible, window_created, live, pc, latest, rearmed>>
    /\ UNCHANGED <<browser_status, probe>>
    /\ Record("expire", "", <<>>)

\* Mutant of schedule_window_close: the timer callback puts nothing.
schedule_window_close_Drops(t) ==
    event_queue' = event_queue

\* Mutant of schedule_window_close: the event is put at the head of the queue.
schedule_window_close_Front(t) ==
    event_queue' = <<[ev |-> "hide_window", src |-> t]>> \o event_queue

\* ShiftWindow.schedule_window_close, run by the timer thread
schedule_window_close(t) ==
    event_queue' = Append(event_queue, [ev |-> "hide_window", src |-> t])

\* Mutant of the timer callback: it hides the window itself instead of
\* leaving that to the update loop.
TimerRun_HidesDirectly(t) ==
    /\ timers[t] = "firing"
    /\ window_visible' = FALSE
    /\ timers' = [timers EXCEPT ![t] = "off"]
    /\ UNCHANGED <<window, shift_pressed, window_timer, running, event_queue,
                   window_created, live, pc, latest, rearmed>>
    /\ UNCHANGED <<browser_status, probe>>
    /\ Record("fire", "", <<>>)

\* Timer.run, second half: call the function, then set finished.
TimerRun(t) ==
    /\ timers[t] = "firing"
    /\ schedule_window_close(t)
    /\ timers' = [timers EXCEPT ![t] = "off"]
    /\ UNCHANGED <<window, shift_pressed, window_timer, running,
                   window_visible, window_created, live, pc, latest, rearmed>>
    /\ UNCHANGED <<browser_status, probe>>
    /\ Record("fire", "", <<>>)

\* ------------------------------------------------------ window operations
\* Mutant of start_timer: the previous timer is not cancelled.
start_timer_NoCancel ==
    /\ FreeTimers # {}
    /\ LET t == Min(FreeTimers)
       IN /\ timers' = [timers EXCEPT ![t] = "waiting"]
          /\ window_timer' = t
          /\ latest' = t

\* Mutant of start_timer: the new Timer is created but never started.
start_timer_NoStart ==
    /\ FreeTimers # {}
    /\ LET t == Min(FreeTimers)
           ts == IF window_timer # None THEN Cancel(timers, window_timer) ELSE timers
       IN /\ timers' = ts
          /\ window_timer' = t
          /\ latest' = t

\* ShiftWindow.start_timer: cancel the timer the handle names, arm a new one.
start_timer ==
    /\ FreeTimers # {}
    /\ LET t == Min(FreeTimers)
           ts == IF window_timer # None THEN Cancel(timers, window_timer) ELSE timers
       IN /\ timers' = [ts EXCEPT ![t] = "waiting"]
          /\ window_timer' = t
          /\ latest' = t

\* ShiftWindow.hide_window: withdraw() raises TclError on a destroyed window.
hide_window ==
    /\ IF window # None /\ window_visible /\ window \in live
       THEN window_visible' = FALSE
       ELSE UNCHANGED window_visible
    /\ window_timer' = None
    /\ UNCHANGED <<window, window_created, live>>

\* ShiftWindow.close_window: destroy() raises TclError on a destroyed window.
close_window ==
    /\ IF window # None
       THEN /\ live' = live \ {window}
            /\ window' = None
            /\ window_created' = FALSE
            /\ window_visible' = FALSE
       ELSE UNCHANGED <<live, window, window_created, window_visible>>
    /\ window_timer' = None

\* Mutant of show_window: window_visible is not set after deiconify().
show_window_NoFlag ==
    /\ IF window # None /\ ~window_visible /\ window \notin live
       THEN /\ window' = None
            /\ window_created' = FALSE
            /\ window_visible' = FALSE
       ELSE UNCHANGED <<window, window_created, window_visible>>
    /\ UNCHANGED live

\* ShiftWindow.show_window: the first Tk call raises TclError on a destroyed
\* window and the handler forgets the window.
show_window ==
    /\ IF window # None /\ ~window_visible
       THEN IF window \in live
            THEN /\ window_visible' = TRUE
                 /\ UNCHANGED <<window, window_created>>
            ELSE /\ window' = None
                 /\ window_created' = FALSE
                 /\ window_visible' = FALSE
       ELSE UNCHANGED <<window, window_created, window_visible>>
    /\ UNCHANGED live

\* ShiftWindow.create_window_main_thread: tk.Tk() makes a new native window,
\* shown at once; the caller stores it in self.window.
create_window_main_thread ==
    /\ WindowIds \ live # {}
    /\ LET w == Min(WindowIds \ live)
       IN /\ live' = live \cup {w}
          /\ window' = w

\* --------------------------------------------------------- the update loop
\* Mutant of the "create_window" branch: window_created is not consulted.
ApplyCreate_AlwaysCreates ==
    /\ create_window_main_thread
    /\ window_visible' = TRUE
    /\ window_created' = TRUE
    /\ start_timer
    /\ rearmed' = FALSE

\* Mutant of the "create_window" branch: a hidden window is shown again
\* without a timer being started.
ApplyCreate_ShowWithoutTimer ==
    IF ~window_created
    THEN /\ create_window_main_thread
         /\ window_visible' = TRUE
         /\ window_created' = TRUE
         /\ start_timer
         /\ rearmed' = FALSE
    ELSE IF ~window_visible
    THEN /\ show_window
         /\ UNCHANGED <<timers, window_timer, latest, rearmed>>
    ELSE /\ start_timer
         /\ rearmed' = TRUE
         /\ UNCHANGED <<window, window_created, window_visible, live>>

\* start_monitoring, branch `event == "create_window"`
ApplyCreate ==
    IF ~window_created
    THEN /\ create_window_main_thread
         /\ window_visible' = TRUE
         /\ window_created' = TRUE
         /\ start_timer
         /\ rearmed' = FALSE
    ELSE IF ~window_visible
    THEN /\ show_window
         /\ start_timer
         /\ rearmed' = FALSE
    ELSE /\ start_timer
         /\ rearmed' = TRUE
         /\ UNCHANGED <<window, window_created, window_visible, live>>

\* start_monitoring, branch `event == "hide_window"`
ApplyHide ==
    /\ hide_window
    /\ UNCHANGED <<timers, latest, rearmed>>

\* start_monitoring, branch `event == "close_window"`
ApplyClose ==
    /\ close_window
    /\ UNCHANGED <<timers, latest, rearmed>>

\* One event_queue.get_nowait() and the dispatch on the event; queue.Empty
\* is passed over.
ApplyIntent ==
    /\ pc = "poll"
    /\ running
    /\ pc' = "update"
    /\ UNCHANGED <<shift_pressed, running>>
    /\ IF event_queue = <<>>
       THEN /\ UNCHANGED <<window, window_timer, event_queue, window_visible,
                           window_created, timers, live, latest, rearmed>>
            /\ UNCHANGED <<browser_status, probe>>
            /\ Record("empty", "", <<>>)
       ELSE /\ event_queue' = Tail(event_queue)
            /\ UNCHANGED <<browser_status, probe>>
            /\ Record("apply", Head(event_queue).ev, <<>>)
            /\ CASE Head(event_queue).ev = "create_window" -> ApplyCreate
                 [] Head(event_queue).ev = "hide_window" -> ApplyHide
                 [] Head(event_queue).ev = "close_window" -> ApplyClose

\* `if self.window: self.window.update()`: TclError when the native window
\* is gone, upon which only the handle is dropped.
RefreshTick ==
    /\ pc = "update"
    /\ pc' = "poll"
    /\ IF window # None /\ window \notin live
       THEN window' = None
       ELSE UNCHANGED window
    /\ UNCHANGED <<shift_pressed, window_timer, running, event_queue, window_visible,
                   window_created, timers, live, latest, rearmed>>
    /\ UNCHANGED <<browser_status, probe>>
    /\ Record("tick", "", <<>>)

\* KeyboardInterrupt in the main thread: the except and finally clauses of
\* start_monitoring.
Interrupt ==
    /\ pc \in {"poll", "update"}
    /\ running' = FALSE
    /\ pc' = "done"
    /\ IF window # None
       THEN close_window
       ELSE UNCHANGED <<live, window, window_created, window_visible, window_timer>>
    /\ UNCHANGED <<shift_pressed, event_queue, timers, latest, rearmed>>
    /\ UNCHANGED <<browser_status, probe>>
    /\ Record("interrupt", "", <<>>)

\* ------------------------------------------------------------ environment
\* The native window is destroyed from outside the program.
ExternalClose ==
    /\ window \in live
    /\ live' = live \ {window}
    /\ UNCHANGED <<window, shift_pressed, window_timer, running, event_queue,
                   window_visible, window_created, timers, pc, latest, rearmed>>
    /\ UNCHANGED <<browser_status, probe>>
    /\ Record("external_close", "", <<>>)

\* A producer puts the "close_window" intent that the loop dispatches on.
PostClose ==
    /\ Room
    /\ pc # "done"
    /\ event_queue' = Append(event_queue, [ev |-> "close_window", src |-> None])
    /\ UNCHANGED <<window, shift_pressed, window_timer, running, window_visible,
                   window_created, timers, live, pc, latest, rearmed>>
    /\ UNCHANGED <<browser_status, probe>>
    /\ Record("post_close", "", <<>>)

Next ==
    \/ KeyPress
    \/ KeyRelease
    \/ \E t \in TimerIds : TimerExpire(t)
    \/ \E t \in TimerIds : TimerRun(t)
    \/ ApplyIntent
    \/ RefreshTick
    \/ Interrupt
    \/ ExternalClose

Spec == Init /\ [][Next]_vars

\* The same program fed "close_window" intents as well.
NextIntents == Next \/ PostClose

SpecIntents == Init /\ [][NextIntents]_vars

\* tk.Tk() or a later Tk call of create_window_main_thread raises TclError
\* (no display, the interpreter cannot be set up): the exception is not a
\* queue.Empty, so it leaves the while loop; the finally clause runs and
\* start_monitoring ends with the exception.
CreateFails ==
    /\ pc = "poll"
    /\ running
    /\ event_queue # <<>>
    /\ Head(event_queue).ev = "create_window"
    /\ ~window_created
    /\ event_queue' = Tail(event_queue)
    /\ running' = FALSE
    /\ pc' = "done"
    /\ IF window # None
       THEN close_window
       ELSE UNCHANGED <<live, window, window_created, window_visible, window_timer>>
    /\ UNCHANGED <<shift_pressed, timers, latest, rearmed>>
    /\ UNCHANGED <<browser_status, probe>>
    /\ Record("raise", "create_window", <<>>)

\* The program on a display where creating the window can fail.
NextFaults == Next \/ CreateFails

SpecFaults == Init /\ [][NextFaults]_vars

\* pollBrowserStatus: the periodic refresh of BrowserStatus from the probe.
PollBrowserStatus ==
    /\ pc # "done"
    /\ browser_status' = ~browser_status
    /\ UNCHANGED window_vars
    /\ UNCHANGED probe
    /\ Record("poll_status", "", <<>>)

\* The program next to a browser status that changes.
NextStyle == Next \/ PollBrowserStatus

SpecStyle == Init /\ [][NextStyle]_vars

\* A run of the detector: one world, then one of the two checks.
InitProbe ==
    /\ InitController
    /\ browser_status = FALSE
    /\ probe \in {NotCalled(w) : w \in Worlds}

CallFrontmostCheck ==
    /\ probe.call = "none"
    /\ probe' = [probe EXCEPT !.call = "frontmost",
                              !.result = is_browser_frontmost_with_x_com(probe.world)]
    /\ UNCHANGED window_vars
    /\ UNCHANGED <<last, pre, browser_status>>

CallOpenCheck ==
    /\ probe.call = "none"
    /\ probe' = [probe EXCEPT !.call = "anywhere",
                              !.result = is_x_com_open_mac(probe.world)]
    /\ UNCHANGED window_vars
    /\ UNCHANGED <<last, pre, browser_status>>

NextProbe == CallFrontmostCheck \/ CallOpenCheck

SpecProbe == InitProbe /\ [][NextProbe]_vars

\* The program while nobody interrupts it, with the scheduling the threads
\* get: the main loop keeps iterating (a 10 ms sleep per pass) and every
\* started Timer thread runs to its end.
NextLive ==
    \/ KeyPress
    \/ KeyRelease
    \/ \E t \in TimerIds : TimerExpire(t)
    \/ \E t \in TimerIds : TimerRun(t)
    \/ ApplyIntent
    \/ RefreshTick
    \/ ExternalClose

Fairness ==
    /\ WF_vars(ApplyIntent)
    /\ WF_vars(RefreshTick)
    /\ \A t \in TimerIds : WF_vars(TimerExpire(t)) /\ WF_vars(TimerRun(t))

LiveSpec == Init /\ [][NextLive]_vars /\ Fairness

\* ------------------------------------------------------- lifecycle states
\* The three lifecycle states as the fields encode them, of a snapshot s.
AbsentS(s)  == s.window = None /\ ~s.window_created /\ ~s.window_visible
HiddenS(s)  == s.window # None /\ s.window_created /\ ~s.window_visible
VisibleS(s) == s.window # None /\ s.window_created /\ s.window_visible

Applied(ev) == last.op = "apply" /\ last.ev = ev

\* Timers started by the step taken last.
NewlyArmed == {t \in TimerIds : timers[t] = "waiting" /\ pre.timers[t] # "waiting"}

IsCreate(e) == e.ev = "create_window"

\* ================================================================== claims

\* C1: at most one live Notification Window exists at any time, and a step
\* allocates a new window only when no previously allocated one is still live.
C1_AtMostOneLiveWindow ==
    /\ Cardinality(live) <= 1
    /\ (live \ pre.live # {} => pre.live = {})

\* C1 witness: a window is allocated again after an earlier one was released.
C1_Witness ==
    /\ Applied("create_window")
    /\ live \ pre.live # {}
    /\ pre.latest # None

\* C2 (as claimed): in every state at most one auto-hide timer is armed and has
\* neither fired nor been cancelled (a timer already past its deadline and
\* about to put its Hide is not counted).
C2_AtMostOneOutstandingTimer ==
    Cardinality({t \in TimerIds : timers[t] = "waiting"}) <= 1

\* C3 (as claimed): after a CreateOrShow re-armed the timer of a visible
\* window, no Hide put by a timer armed before that re-arm hides the window.
C3_NoStaleHide ==
    ~ /\ Applied("hide_window")
      /\ VisibleS(pre)
      /\ pre.rearmed
      /\ Head(pre.event_queue).src # pre.latest
      /\ ~window_visible

\* C4: applying CreateOrShow in state Absent allocates the window, leaves the
\* state Visible and arms exactly one auto-hide timer, held by the handle.
C4_CreateFromAbsent ==
    (Applied("create_window") /\ AbsentS(pre)) =>
        /\ VisibleS(Snap)
        /\ window \in live
        /\ window \notin pre.live
        /\ NewlyArmed = {window_timer}

\* C4 witness: a CreateOrShow has just been applied in state Absent.
C4_Witness ==
    /\ Applied("create_window")
    /\ AbsentS(pre)
    /\ VisibleS(Snap)

\* C5 (as claimed): applying Hide in state Hidden or Absent changes neither the
\* window, nor the lifecycle state, nor the timer handle, nor any timer.
C5_HideIsNoOp ==
    (Applied("hide_window") /\ (HiddenS(pre) \/ AbsentS(pre))) =>
        /\ window = pre.window
        /\ window_created = pre.window_created
        /\ window_visible = pre.window_visible
        /\ live = pre.live
        /\ window_timer = pre.window_timer
        /\ timers = pre.timers

\* C6: a key release never enqueues an intent: it leaves the queue, the window
\* state and the timers unchanged, and sets shift_pressed to false exactly
\* when the key is a Shift variant.
C6_ReleaseEnqueuesNothing ==
    last.op = "release" =>
        /\ event_queue = pre.event_queue
        /\ window = pre.window
        /\ window_created = pre.window_created
        /\ window_visible = pre.window_visible
        /\ live = pre.live
        /\ window_timer = pre.window_timer
        /\ timers = pre.timers
        /\ shift_pressed = IF Contains(shift, last.key) THEN FALSE
                           ELSE pre.shift_pressed

\* C6 witness: Shift is released while held and the window is visible.
C6_Witness ==
    /\ last.op = "release"
    /\ Contains(shift, last.key)
    /\ pre.shift_pressed
    /\ VisibleS(pre)
    /\ VisibleS(Snap)

\* C7: a key press enqueues exactly one CreateOrShow and sets shift_pressed
\* iff the key is a Shift variant and shift_pressed was false; any other
\* press changes nothing; and shift_pressed is cleared by releases only, so
\* a Shift release lies between any two enqueued CreateOrShow intents.
C7_PressDebounced ==
    /\ last.op = "press" =>
        /\ window = pre.window
        /\ window_created = pre.window_created
        /\ window_visible = pre.window_visible
        /\ live = pre.live
        /\ window_timer = pre.window_timer
        /\ timers = pre.timers
        /\ IF Contains(shift, last.key) /\ ~pre.shift_pressed
           THEN /\ event_queue = Append(pre.event_queue,
                                        [ev |-> "create_window", src |-> None])
                /\ shift_pressed
           ELSE /\ event_queue = pre.event_queue
                /\ shift_pressed = pre.shift_pressed
    /\ Len(SelectSeq(event_queue, IsCreate)) > Len(SelectSeq(pre.event_queue, IsCreate))
          => (last.op = "press" /\ ~pre.shift_pressed /\ shift_pressed)
    /\ (pre.shift_pressed /\ ~shift_pressed) => last.op = "release"

\* C7 witness: a Shift press was swallowed because Shift was already held.
C7_Witness ==
    /\ last.op = "press"
    /\ Contains(shift, last.key)
    /\ pre.shift_pressed
    /\ Len(pre.event_queue) > 0

\* C8: while the loop runs and the timer threads are scheduled, a visible
\* window that still exists is eventually hidden, unless a further
\* CreateOrShow is enqueued or the window is destroyed from outside.
C8_AutoHide ==
    (VisibleS(Snap) /\ window \in live)
        ~> \/ HiddenS(Snap)
           \/ window \notin live
           \/ \E i \in 1..Len(event_queue) : IsCreate(event_queue[i])

\* C8 witness: the Hide of the timer armed last has just hidden the window.
C8_Witness ==
    /\ Applied("hide_window")
    /\ VisibleS(pre)
    /\ Head(pre.event_queue).src = pre.latest
    /\ HiddenS(Snap)

\* C9: applying CreateOrShow in state Hidden, the window still existing,
\* shows the same window again (none created, none destroyed), leaves the
\* state Visible and arms the auto-hide timer.
C9_ShowFromHidden ==
    (Applied("create_window") /\ HiddenS(pre) /\ pre.window \in pre.live) =>
        /\ window = pre.window
        /\ live = pre.live
        /\ VisibleS(Snap)
        /\ NewlyArmed = {window_timer}

\* C9 witness: a hidden window has just been shown again.
C9_Witness ==
    /\ Applied("create_window")
    /\ HiddenS(pre)
    /\ VisibleS(Snap)

\* C10: applying CreateOrShow in state Visible only re-arms the timer: the
\* window, the native windows and the created/visible flags stay as they were.
C10_RearmOnly ==
    (Applied("create_window") /\ VisibleS(pre)) =>
        /\ window = pre.window
        /\ live = pre.live
        /\ window_created = pre.window_created
        /\ window_visible = pre.window_visible
        /\ NewlyArmed = {window_timer}
        /\ (pre.window_timer # None => timers[pre.window_timer] # "waiting")

\* C10 witness: the timer of a visible window was re-armed while still waiting.
C10_Witness ==
    /\ Applied("create_window")
    /\ VisibleS(pre)
    /\ pre.window_timer # None
    /\ pre.timers[pre.window_timer] = "waiting"


\* q is an initial segment of r.
IsPrefix(q, r) == Len(q) <= Len(r) /\ SubSeq(r, 1, Len(q)) = q

\* C11: intents are applied in the order they were enqueued, none reordered,
\* dropped or merged: the loop applies the oldest queued intent and removes
\* exactly that one, and every other step leaves the queued intents in place,
\* at most appending behind them.
C11_FifoOrder ==
    /\ last.op = "apply" =>
           /\ pre.event_queue # <<>>
           /\ last.ev = Head(pre.event_queue).ev
           /\ event_queue = Tail(pre.event_queue)
    /\ last.op # "apply" => IsPrefix(pre.event_queue, event_queue)

\* C11 witness: a Hide enqueued before a CreateOrShow has just been applied,
\* the CreateOrShow still waiting behind it.
C11_Witness ==
    /\ Applied("hide_window")
    /\ Len(pre.event_queue) >= 2
    /\ IsCreate(pre.event_queue[2])
    /\ event_queue # <<>>
    /\ IsCreate(Head(event_queue))

\* C12 (as claimed): when the refresh tick finds the window gone, the
\* controller is left Absent (no handle, neither created nor visible) and
\* nothing is enqueued.
C12_TickForcesAbsent ==
    (last.op = "tick" /\ pre.window # None /\ pre.window \notin pre.live) =>
        /\ AbsentS(Snap)
        /\ event_queue = pre.event_queue

\* C15 (as claimed): once start_monitoring has returned, no native window
\* exists, the state is Absent and no auto-hide timer is outstanding.
C15_ShutdownReleasesAll ==
    pc = "done" =>
        /\ live = {}
        /\ AbsentS(Snap)
        /\ Outstanding(timers) = {}

\* C17 (as claimed): a pass of the loop applies every intent pending at that
\* moment before it drives the refresh tick, so none of them (a CreateOrShow
\* of a Shift press in particular) is still queued when the tick runs.
C17_PassDrainsQueue ==
    last.op = "apply" => event_queue = <<>>

\* C18: steps of the key-monitor thread and of the timer threads leave the
\* window, the native windows, the lifecycle flags and the timer handle
\* alone: a key event changes at most shift_pressed and appends to the queue,
\* a timer firing appends exactly one Hide.
C18_SingleWriter ==
    last.op \in {"press", "release", "expire", "fire"} =>
        /\ window = pre.window
        /\ live = pre.live
        /\ window_created = pre.window_created
        /\ window_visible = pre.window_visible
        /\ window_timer = pre.window_timer
        /\ running = pre.running
        /\ IsPrefix(pre.event_queue, event_queue)
        /\ last.op \in {"expire", "fire"} => shift_pressed = pre.shift_pressed
        /\ last.op = "expire" => event_queue = pre.event_queue
        /\ last.op = "fire" =>
               /\ Len(event_queue) = Len(pre.event_queue) + 1
               /\ event_queue[Len(event_queue)].ev = "hide_window"

\* C18 witness: a timer fired while the window was visible, and the window
\* is still visible: hiding it is left to the loop.
C18_Witness ==
    /\ last.op = "fire"
    /\ VisibleS(pre)
    /\ VisibleS(Snap)
    /\ window \in live

\* C19 (as claimed): applying Destroy leaves no native window, the state
\* Absent, the timer handle cleared and no timer pending.
C19_DestroyLeavesAbsent ==
    Applied("close_window") =>
        /\ live = {}
        /\ AbsentS(Snap)
        /\ window_timer = None
        /\ Outstanding(timers) = {}

\* A call into the window primitive failed in the step taken last: creating
\* the window raised, or withdraw() or deiconify() met a destroyed window.
PrimitiveFailed ==
    \/ last.op = "raise"
    \/ /\ Applied("hide_window")
       /\ pre.window # None /\ pre.window_visible /\ pre.window \notin pre.live
    \/ /\ Applied("create_window")
       /\ pre.window_created /\ ~pre.window_visible
       /\ pre.window # None /\ pre.window \notin pre.live

\* C13: when a window primitive fails while a Hide or a CreateOrShow intent
\* is applied, the failure does not leave the update loop: the loop is still
\* running and proceeds to its refresh tick and to later intents.
C13_FailureSwallowed ==
    PrimitiveFailed => running /\ pc = "update"

\* The frontmost check on the world of the run made an osascript call that
\* failed.
FrontmostCallFailed ==
    LET w == probe.world
    IN /\ w.system = "Darwin"
       /\ \/ w.fault.call = CallFront
          \/ w.fault.call = w.front
          \/ w.fault.call = CallTitle /\ w.front = Firefox

\* C14: no failure of an osascript call makes a check raise; the frontmost
\* check answers false when a call it made failed; the open-anywhere check
\* answers what the browsers whose query did not fail report.
C14_ProbeFailureIsNegative ==
    /\ probe.call # "none" => ~probe.result.raised
    /\ (probe.call = "frontmost" /\ FrontmostCallFailed) => ~probe.result.found
    /\ probe.call = "anywhere" =>
           (probe.result.found <=>
               \E i \in DOMAIN script_browsers :
                   /\ outcome(probe.world, script_browsers[i]) = "ok"
                   /\ script_browsers[i] \in probe.world.open)

\* C16: a window created from Absent has the styling of the BrowserStatus
\* read at that moment.
C16_StyleFromSnapshot ==
    (Applied("create_window") /\ ~pre.window_created /\ window # None) =>
        configure_bg = select_style(browser_status)

RecognisedBrowser(app) == \E i \in DOMAIN browser_apps : browser_apps[i] = app

\* The frontmost application reports the site open: a scripted browser has
\* it in a tab, another browser shows it in its window title.
ReportsSiteOpen(w) ==
    IF \E i \in DOMAIN script_browsers : script_browsers[i] = w.front
    THEN w.front \in w.open
    ELSE title_has_x(w.title)

\* C20: the frontmost check answers true only when the frontmost
\* application is a recognised browser that reports the site open, and it
\* answers (false, no browser name) when the platform is not macOS, the
\* frontmost application is not determined, or it is not a recognised
\* browser.
C20_FrontmostOnly ==
    (probe.call = "frontmost" /\ ~probe.result.raised) =>
        LET w == probe.world
        IN /\ probe.result.found => RecognisedBrowser(w.front) /\ ReportsSiteOpen(w)
           /\ (\/ w.system # "Darwin"
               \/ outcome(w, CallFront) # "ok"
               \/ w.front = NoName
               \/ ~RecognisedBrowser(w.front)) =>
                  ~probe.result.found /\ probe.result.browser = NoName

\* C21: once the loss of the window was reported (the handle is dropped),
\* the next CreateOrShow intent the loop applies allocates a fresh window
\* and leaves it Visible.
C21_RecoversAfterLoss ==
    (Applied("create_window") /\ pre.window = None) =>
        /\ window \in live
        /\ window \notin pre.live
        /\ VisibleS(Snap)

\* C22: between two iterations of the update loop window_created is true
\* exactly when a handle is held, and window_visible implies window_created.
C22_BookkeepingConsistent ==
    pc = "poll" =>
        /\ window_created <=> window # None
        /\ window_visible => window_created

HideQueued == \E i \in 1..Len(event_queue) : event_queue[i].ev = "hide_window"

\* C23: between two iterations of the update loop, a window that is Visible
\* has a timer still to fire or a Hide intent waiting in the queue.
C23_VisibleCanBeHidden ==
    (pc = "poll" /\ VisibleS(Snap)) => (Outstanding(timers) # {} \/ HideQueued)

\* C23 witness: between two iterations the window is Visible and live, its
\* timer has fired, and the Hide intent it put is waiting in the queue.
C23_Witness ==
    /\ pc = "poll"
    /\ VisibleS(Snap)
    /\ window \in live
    /\ Outstanding(timers) = {}
    /\ HideQueued

============================================================================
